---- MODULE Spec2Model ----
(***************************************************************************)
(* A model of the CRX image decoder (src/src/crx.rs): CrxFile::read and    *)
(* the routines it calls.  The reader is a cursor over the byte sequence   *)
(* `input`; every step of CrxFile::read is one action.                     *)
(***************************************************************************)
EXTENDS Integers, Sequences, FiniteSets, TLC

(***************************************************************************)
(* Bounds of the enumerated inputs.                                        *)
(***************************************************************************)
MaxWidth == 2
MaxHeight == 2
MaxClips == 1
MaxDepth == 2

(***************************************************************************)
(* Machine arithmetic on bytes and words.                                  *)
(***************************************************************************)
RECURSIVE BitAnd(_, _)
BitAnd(a, b) ==
    IF a = 0 \/ b = 0 THEN 0
    ELSE (IF a % 2 = 1 /\ b % 2 = 1 THEN 1 ELSE 0) + 2 * BitAnd(a \div 2, b \div 2)

RECURSIVE BitOr(_, _)
BitOr(a, b) ==
    IF a = 0 THEN b
    ELSE IF b = 0 THEN a
    ELSE (IF a % 2 = 1 \/ b % 2 = 1 THEN 1 ELSE 0) + 2 * BitOr(a \div 2, b \div 2)

RECURSIVE BitXor(_, _)
BitXor(a, b) ==
    IF a = 0 THEN b
    ELSE IF b = 0 THEN a
    ELSE (IF (a % 2) # (b % 2) THEN 1 ELSE 0) + 2 * BitXor(a \div 2, b \div 2)

\* u8::wrapping_add
\* an addition that stops at 0xFF
WrappingAdd_saturating(a, b) == IF a + b > 255 THEN 255 ELSE a + b
WrappingAdd(a, b) == (a + b) % 256

\* byteorder little-endian reads at zero-based offset p of the sequence s
U8At(s, p) == s[p + 1]
U16At(s, p) == s[p + 1] + 256 * s[p + 2]
I16At(s, p) == IF U16At(s, p) >= 32768 THEN U16At(s, p) - 65536 ELSE U16At(s, p)
I32At(s, p) ==
    s[p + 1] + 256 * s[p + 2] + 65536 * s[p + 3]
        + 16777216 * (IF s[p + 4] >= 128 THEN s[p + 4] - 256 ELSE s[p + 4])

\* s[a..b) with zero-based bounds
Slice(s, a, b) == SubSeq(s, a + 1, b)

\* the sequence s with the zero-based positions of the function f overwritten
Overwrite(s, f) == [i \in 1..Len(s) |-> IF (i - 1) \in DOMAIN f THEN f[i - 1] ELSE s[i]]

Zeros(n) == [i \in 1..n |-> 0]

RECURSIVE Concat(_)
Concat(ss) == IF ss = <<>> THEN <<>> ELSE Head(ss) \o Concat(Tail(ss))

RECURSIVE Repeat(_, _)
Repeat(s, n) == IF n <= 0 THEN <<>> ELSE s \o Repeat(s, n - 1)

(***************************************************************************)
(* Program constants.                                                      *)
(***************************************************************************)
\* b"CRXG"
CRX_SIGNATURE == <<67, 82, 88, 71>>

\* a comparison of the first three bytes only
SignatureMismatch_prefix(sig) == SubSeq(sig, 1, 3) # SubSeq(CRX_SIGNATURE, 1, 3)

\* sig != *CRX_SIGNATURE
SignatureMismatch(sig) == sig # CRX_SIGNATURE

VARIABLES
    input,            \* the bytes behind the reader handed to CrxFile::read
    pos,              \* number of bytes the reader has delivered so far
    overflow_checks,  \* whether the build panics on integer overflow (debug) or wraps (release)
    pc,               \* the step CrxFile::read is at
    header,           \* CrxHeader
    bpp,              \* bits per pixel of the source, from header.depth
    palette,          \* Vec<[u8; 3]>
    clips,            \* Vec<CrxImageClip>
    compressed_data,  \* the compressed blob
    color_data,       \* the output buffer of the decompressor, then the final pixels
    y,                \* unpack_2: the row about to be decoded
    zpos,             \* unpack_2: bytes taken from the inflated stream
    window,           \* unpack_1: the written cells of the 64 KiB window (unwritten cells are 0)
    flag,             \* unpack_1: the flag register
    win_pos,          \* unpack_1: window write cursor
    dst,              \* unpack_1: output write cursor
    cur,              \* unpack_1: read position of the cursor over the payload
    overrun,          \* unpack_2: a mode-4 run count exceeded the remaining samples
    trace,            \* unpack_1: what each iteration of the loop decoded, oldest first
    result            \* what CrxFile::read returned: nothing yet, Ok(file), Err(error) or a panic

vars == <<input, pos, overflow_checks, pc, header, bpp, palette, clips, compressed_data,
          color_data, y, zpos, window, flag, win_pos, dst, cur, overrun, trace, result>>

(***************************************************************************)
(* Results.                                                                *)
(***************************************************************************)
NoFile == [inner_x |-> 0, inner_y |-> 0, width |-> 0, height |-> 0, bpp |-> 0,
           clips |-> <<>>, raw_image_buffer |-> <<>>]

Running == [kind |-> "Running", name |-> "", a |-> 0, b |-> 0, file |-> NoFile]
Ok(f) == [kind |-> "Ok", name |-> "", a |-> 0, b |-> 0, file |-> f]
\* Err(io::Error): a CrxDecodeError wrapped by decode_error!, or an error of the byte source
Err(name, a, b) == [kind |-> "Err", name |-> name, a |-> a, b |-> b, file |-> NoFile]
\* the thread unwinds: the call returns neither Ok nor Err
Panic(name) == [kind |-> "Panic", name |-> name, a |-> 0, b |-> 0, file |-> NoFile]

\* read_exact / read_u8 on a source that runs out of bytes
UnexpectedEof == Err("UnexpectedEof", 0, 0)

(***************************************************************************)
(* The zlib decoder behind unpack_2's reader (flate2::read::ZlibDecoder).  *)
(* The model covers streams made of one final stored block; Inflated is    *)
(* the byte sequence such a stream delivers, and the empty sequence for a  *)
(* blob that is not such a stream (every read of it fails).                *)
(***************************************************************************)
ZlibHeaderOk(buf) ==
    /\ Len(buf) >= 2
    /\ buf[1] % 16 = 8
    /\ buf[1] \div 16 <= 7
    /\ (buf[2] \div 32) % 2 = 0
    /\ (buf[1] * 256 + buf[2]) % 31 = 0

StoredBlockOk(buf) ==
    /\ Len(buf) >= 7
    /\ buf[3] % 8 = 1
    /\ U16At(buf, 3) + U16At(buf, 5) = 65535
    /\ Len(buf) >= 7 + U16At(buf, 3)

Inflated(buf) ==
    IF ZlibHeaderOk(buf) /\ StoredBlockOk(buf)
    THEN Slice(buf, 7, 7 + U16At(buf, 3))
    ELSE <<>>

\* the error of a read past what the decoder can deliver
InflateError == Err("Inflate", 0, 0)

(***************************************************************************)
(* Parsing of the container: signature, header, palette, clips, payload.   *)
(***************************************************************************)
NoHeader == [inner_x |-> 0, inner_y |-> 0, width |-> 0, height |-> 0,
             version |-> 0, flag |-> 0, depth |-> 0, mode |-> 0]

\* the fields CrxHeader::read takes from the 16 bytes at offset p
CrxHeader_fields(s, p) ==
    [inner_x |-> I16At(s, p), inner_y |-> I16At(s, p + 2),
     width |-> U16At(s, p + 4), height |-> U16At(s, p + 6),
     version |-> U16At(s, p + 8), flag |-> U16At(s, p + 10),
     depth |-> I16At(s, p + 12), mode |-> U16At(s, p + 14)]

\* a check of the upper limit only
VersionSupported_upper(version) == version <= 3

VersionSupported(version) == version \in 1..3

\* let bpp = match header.depth { 0 => 24, 1 => 32, _ => 8 }
DepthToBpp(depth) == IF depth = 0 THEN 24 ELSE IF depth = 1 THEN 32 ELSE 8

color_size(depth) == IF depth = 258 THEN 4 ELSE 3
colors(depth) == IF depth > 256 THEN 256 ELSE depth

\* a palette entry pushed as read, without the fix-up
palette_entry_raw(s, p) == <<U8At(s, p), U8At(s, p + 1), U8At(s, p + 2)>>

\* one palette entry read at offset p, with the fix-up of (0xFF, 0, 0xFF)
palette_entry(s, p) ==
    LET r == U8At(s, p)
        g == U8At(s, p + 1)
        b == U8At(s, p + 2)
    IN  <<r, IF 255 = b /\ 0 = g /\ 255 = r THEN 255 ELSE g, b>>

read_palette(s, p, depth) ==
    LET n == IF colors(depth) < 0 THEN 0 ELSE colors(depth)
        size == color_size(depth)
    IN  IF p + n * size > Len(s)
        THEN [res |-> UnexpectedEof, palette |-> <<>>, pos |-> Len(s)]
        ELSE [res |-> Running,
              palette |-> [k \in 1..n |-> palette_entry(s, p + (k - 1) * size)],
              pos |-> p + n * size]

\* a clip record read with its second and third field exchanged
CrxImageClip_read_swapped(s, p) ==
    [field_1 |-> I32At(s, p), field_2 |-> I16At(s, p + 6), field_3 |-> I16At(s, p + 4),
     field_4 |-> I32At(s, p + 8), field_5 |-> I16At(s, p + 12), field_6 |-> I16At(s, p + 14)]

CrxImageClip_read(s, p) ==
    [field_1 |-> I32At(s, p), field_2 |-> I16At(s, p + 4), field_3 |-> I16At(s, p + 6),
     field_4 |-> I32At(s, p + 8), field_5 |-> I16At(s, p + 12), field_6 |-> I16At(s, p + 14)]

\* `n as usize` of a negative i32 is above isize::MAX: the allocation panics
CapacityOverflow(n) == n < 0

read_clip(s, p) ==
    IF p + 4 > Len(s)
    THEN [res |-> UnexpectedEof, clips |-> <<>>, pos |-> Len(s)]
    ELSE LET clip_count == I32At(s, p)
         IN  IF CapacityOverflow(clip_count)
             THEN [res |-> Panic("CapacityOverflow"), clips |-> <<>>, pos |-> p + 4]
             ELSE IF p + 4 + 16 * clip_count > Len(s)
             THEN [res |-> UnexpectedEof, clips |-> <<>>, pos |-> Len(s)]
             ELSE [res |-> Running,
                   clips |-> [k \in 1..clip_count |-> CrxImageClip_read(s, p + 4 + 16 * (k - 1))],
                   pos |-> p + 4 + 16 * clip_count]

\* a length in front of the payload whenever any flag bit is set
HasDataSize_any(f) == f # 0

\* header.flag & 0x10 != 0
HasDataSize(f) == BitAnd(f, 16) # 0

\* the compressed blob: length-prefixed, or everything up to the end of the stream
read_payload(s, p, f) ==
    IF HasDataSize(f)
    THEN IF p + 4 > Len(s)
         THEN [res |-> UnexpectedEof, buf |-> <<>>, pos |-> Len(s)]
         ELSE LET data_size == I32At(s, p)
              IN  IF CapacityOverflow(data_size)
                  THEN [res |-> Panic("CapacityOverflow"), buf |-> <<>>, pos |-> p + 4]
                  ELSE IF p + 4 + data_size > Len(s)
                  THEN [res |-> UnexpectedEof, buf |-> <<>>, pos |-> Len(s)]
                  ELSE [res |-> Running, buf |-> Slice(s, p + 4, p + 4 + data_size),
                        pos |-> p + 4 + data_size]
    ELSE [res |-> Running, buf |-> Slice(s, p, Len(s)), pos |-> Len(s)]

unpackVars == <<y, zpos, window, flag, win_pos, dst, cur, overrun, trace>>

\* CrxFile::read returns res (or unwinds)
Return(res) == pc' = "done" /\ result' = res

ReadSignature ==
    /\ pc = "signature"
    /\ IF pos + 4 > Len(input)
       THEN pos' = Len(input) /\ Return(UnexpectedEof)
       ELSE /\ pos' = pos + 4
            /\ IF SignatureMismatch(Slice(input, pos, pos + 4))
               THEN Return(Err("CrxSignatureInvalid", 0, 0))
               ELSE pc' = "header" /\ UNCHANGED result
    /\ UNCHANGED <<input, overflow_checks, header, bpp, palette, clips, compressed_data,
                   color_data, unpackVars>>

ReadHeader ==
    /\ pc = "header"
    /\ IF pos + 16 > Len(input)
       THEN pos' = Len(input) /\ Return(UnexpectedEof) /\ UNCHANGED <<header, bpp>>
       ELSE LET h == CrxHeader_fields(input, pos)
            IN  /\ pos' = pos + 16
                /\ IF ~VersionSupported(h.version)
                   THEN Return(Err("VersionNotSupported", h.version, 0))
                        /\ UNCHANGED <<header, bpp>>
                   ELSE /\ header' = h
                        /\ bpp' = DepthToBpp(h.depth)
                        /\ pc' = "palette"
                        /\ UNCHANGED result
    /\ UNCHANGED <<input, overflow_checks, palette, clips, compressed_data, color_data,
                   unpackVars>>

ReadPalette ==
    /\ pc = "palette"
    /\ IF bpp = 8
       THEN LET r == read_palette(input, pos, header.depth)
            IN  /\ pos' = r.pos
                /\ IF r.res.kind # "Running"
                   THEN Return(r.res) /\ UNCHANGED palette
                   ELSE palette' = r.palette /\ pc' = "clip" /\ UNCHANGED result
       ELSE pc' = "clip" /\ UNCHANGED <<pos, palette, result>>
    /\ UNCHANGED <<input, overflow_checks, header, bpp, clips, compressed_data, color_data,
                   unpackVars>>

ReadClip ==
    /\ pc = "clip"
    /\ IF header.version >= 3
       THEN LET r == read_clip(input, pos)
            IN  /\ pos' = r.pos
                /\ IF r.res.kind # "Running"
                   THEN Return(r.res) /\ UNCHANGED clips
                   ELSE clips' = r.clips /\ pc' = "payload" /\ UNCHANGED result
       ELSE pc' = "payload" /\ UNCHANGED <<pos, clips, result>>
    /\ UNCHANGED <<input, overflow_checks, header, bpp, palette, compressed_data, color_data,
                   unpackVars>>

ReadPayload ==
    /\ pc = "payload"
    /\ LET r == read_payload(input, pos, header.flag)
       IN  /\ pos' = r.pos
           /\ IF r.res.kind # "Running"
              THEN Return(r.res) /\ UNCHANGED compressed_data
              ELSE /\ compressed_data' = r.buf
                   /\ pc' = IF header.version = 1 THEN "unpack_1" ELSE "unpack_2"
                   /\ UNCHANGED result
    /\ UNCHANGED <<input, overflow_checks, header, bpp, palette, clips, color_data,
                   unpackVars>>

(***************************************************************************)
(* unpack_1: the version-1 sliding-window decompressor.                    *)
(***************************************************************************)
\* bytes per pixel of the decompressor's output: context.bpp / 8
BytesPerPixel(b) == b \div 8

\* let mut output: Vec<u8> = vec![0; (context.bpp / 8) * context.width * context.height]
unpack_1_output_len(b, width, height) == BytesPerPixel(b) * width * height

\* the window, as the sequence of its cells from cell 0 up to the last one
\* written; the cells behind it hold the initial 0
WindowAt(w, i) == IF i < Len(w) THEN w[i + 1] ELSE 0
WindowWrite(w, i, dat) ==
    IF i < Len(w) THEN [w EXCEPT ![i + 1] = dat] ELSE w \o Zeros(i - Len(w)) \o <<dat>>

\* a sentinel of seven bits above the control byte
reload_flag_short(b) == BitOr(b, 32512)

\* flag = buf.read_u8()? as i32 | 0xFF00
reload_flag(b) == BitOr(b, 65280)

\* 0 == (flag & 0x100): the bits of the control byte are used up
flag_exhausted(f) == 0 = BitAnd(f, 256)

\* while dst < output.len()
unpack_1_continue(d, len) == d < len

\* the (offset, count) of a back-reference whose control byte was read just before position c
decode_backref(buf, c, control) ==
    IF control >= 192
    THEN IF c + 1 > Len(buf) THEN [eof |-> TRUE, offset |-> 0, count |-> 0, cur |-> Len(buf)]
         ELSE [eof |-> FALSE,
               offset |-> BitOr(BitAnd(control, 3) * 256, U8At(buf, c)),
               count |-> 4 + BitAnd(control \div 4, 15),
               cur |-> c + 1]
    ELSE IF 0 # BitAnd(control, 128)
    THEN IF 0 = BitAnd(control, 31)
         THEN IF c + 1 > Len(buf) THEN [eof |-> TRUE, offset |-> 0, count |-> 0, cur |-> Len(buf)]
              ELSE [eof |-> FALSE, offset |-> U8At(buf, c),
                    count |-> 2 + BitAnd(control \div 32, 3), cur |-> c + 1]
         ELSE [eof |-> FALSE, offset |-> BitAnd(control, 31),
               count |-> 2 + BitAnd(control \div 32, 3), cur |-> c]
    ELSE IF 127 = control
    THEN IF c + 4 > Len(buf) THEN [eof |-> TRUE, offset |-> 0, count |-> 0, cur |-> Len(buf)]
         ELSE [eof |-> FALSE, offset |-> U16At(buf, c + 2), count |-> 2 + U16At(buf, c),
               cur |-> c + 4]
    ELSE IF c + 2 > Len(buf) THEN [eof |-> TRUE, offset |-> 0, count |-> 0, cur |-> Len(buf)]
         ELSE [eof |-> FALSE, offset |-> U16At(buf, c), count |-> control + 4, cur |-> c + 2]

\* the copy loop of a back-reference, all its passes at once.  st.offset is
\* win_pos - offset as an integer; a negative value stands for the wrapped
\* usize 2^64 + st.offset, and `offset &= 0xFFFF` gives the same cell for both
\* since 0x10000 divides 2^64.  The loop makes n passes, count of them unless
\* the output fills first.  Pass j (from 0) reads cell (offset + j) & 0xFFFF
\* and writes cell (win_pos + j) & 0xFFFF and output[dst + j].  The cell pass j
\* reads has been written by an earlier pass of this loop exactly when
\* j >= period, by pass j - period, period being the distance from the first
\* cell read to the first cell written (a whole turn of the window when they
\* are the same cell); so pass j copies what the window held in cell
\* (offset + j mod period) & 0xFFFF before the loop.
copy_loop(count, st) ==
    LET room == Len(st.output) - st.dst
        n == IF room <= 0 THEN 0 ELSE IF count < room THEN count ELSE room
        first == st.offset % 65536
        distance == (st.win_pos - first) % 65536
        period == IF distance = 0 THEN 65536 ELSE distance
        \* what the passes copy, in order
        copied == SubSeq([j \in 1..n |->
                            WindowAt(st.window, (first + ((j - 1) % period)) % 65536)], 1, n)
        \* the passes that write cell c: pass (c - win_pos) & 0xFFFF and, in
        \* a loop of more than 0x10000 passes, the one a whole turn later
        pass(c) == (c - st.win_pos) % 65536
        last_pass(c) == IF pass(c) + 65536 < n THEN pass(c) + 65536 ELSE pass(c)
        reached == IF st.win_pos + n >= 65536 THEN 65536 ELSE st.win_pos + n
        cells == IF reached > Len(st.window) THEN reached ELSE Len(st.window)
    IN  [src |-> first,
         window |-> SubSeq([k \in 1..cells |->
                               IF pass(k - 1) < n THEN copied[last_pass(k - 1) + 1]
                               ELSE WindowAt(st.window, k - 1)], 1, cells),
         win_pos |-> BitAnd(st.win_pos + n, 65535),
         output |-> SubSeq(st.output, 1, st.dst) \o copied
                        \o SubSeq(st.output, st.dst + n + 1, Len(st.output)),
         dst |-> st.dst + n]

\* a literal that reaches the output but not the window
write_literal_output_only(st, dat) ==
    [window |-> st.window, win_pos |-> st.win_pos,
     output |-> [st.output EXCEPT ![st.dst + 1] = dat], dst |-> st.dst + 1]

\* window[win_pos] = dat; win_pos = (win_pos + 1) & 0xFFFF; output[dst] = dat; dst += 1
write_literal(st, dat) ==
    [window |-> WindowWrite(st.window, st.win_pos, dat),
     win_pos |-> BitAnd(st.win_pos + 1, 65535),
     output |-> [st.output EXCEPT ![st.dst + 1] = dat], dst |-> st.dst + 1]

\* one pass of the body of `for _ in 0..count` with dst < output.len(); st
\* holds [offset, window, win_pos, output, dst]
copy_byte(st) ==
    LET offset == st.offset % 65536
        dat == WindowAt(st.window, offset)
    IN  [offset |-> offset + 1,
         window |-> WindowWrite(st.window, st.win_pos, dat),
         win_pos |-> BitAnd(st.win_pos + 1, 65535),
         output |-> [st.output EXCEPT ![st.dst + 1] = dat],
         dst |-> st.dst + 1]

\* `for _ in 0..count { if dst >= output.len() { break; } ... }`: the state
\* after each byte copied, oldest first
RECURSIVE copy_bytes(_, _)
copy_bytes(count, st) ==
    IF count = 0 \/ st.dst >= Len(st.output) THEN <<>>
    ELSE <<copy_byte(st)>> \o copy_bytes(count - 1, copy_byte(st))

\* one iteration of `while dst < output.len()`; st holds the locals of
\* unpack_1.  items is what the iteration decoded, if it got that far: where
\* its first byte lay, whether it loaded a control byte, a literal (count 1)
\* or a back-reference (count, back), and the window cell the copy started from
unpack_1_iteration(buf, st, checks) ==
    LET shifted == st.flag \div 2
        reload == flag_exhausted(shifted)
        eof0 == reload /\ st.cur + 1 > Len(buf)
        flag1 == IF reload /\ ~eof0 THEN reload_flag(U8At(buf, st.cur)) ELSE shifted
        cur1 == IF reload THEN st.cur + 1 ELSE st.cur
        failed(res) == [st EXCEPT !.res = res]
        item(literal, count, back, src) ==
            <<[at |-> st.cur, reload |-> reload, literal |-> literal, count |-> count,
               back |-> back, win_pos |-> st.win_pos, dst |-> st.dst, src |-> src]>>
    IN  IF eof0 THEN failed(UnexpectedEof)
        ELSE IF cur1 + 1 > Len(buf) THEN failed(UnexpectedEof)
        ELSE IF 0 # BitAnd(flag1, 1)
        THEN LET w == write_literal(st, U8At(buf, cur1))
             IN  [res |-> Running, flag |-> flag1, cur |-> cur1 + 1,
                  window |-> w.window, win_pos |-> w.win_pos,
                  output |-> w.output, dst |-> w.dst,
                  items |-> item(TRUE, 1, 0, -1)]
        ELSE LET control == U8At(buf, cur1)
                 ref == decode_backref(buf, cur1 + 1, control)
             IN  IF ref.eof THEN failed(UnexpectedEof)
                 ELSE IF ref.offset > st.win_pos /\ checks
                 THEN [failed(Panic("SubtractOverflow")) EXCEPT
                          !.items = item(FALSE, ref.count, ref.offset, -1)]
                 ELSE LET c == copy_loop(ref.count,
                                  [offset |-> st.win_pos - ref.offset, window |-> st.window,
                                   win_pos |-> st.win_pos, output |-> st.output,
                                   dst |-> st.dst])
                      IN  [res |-> Running, flag |-> flag1, cur |-> ref.cur,
                           window |-> c.window, win_pos |-> c.win_pos,
                           output |-> c.output, dst |-> c.dst,
                           items |-> item(FALSE, ref.count, ref.offset, c.src)]

Unpack1Begin ==
    /\ pc = "unpack_1"
    /\ window' = <<>>
    /\ flag' = 0
    /\ win_pos' = 0
    /\ dst' = 0
    /\ cur' = 0
    /\ trace' = <<>>
    /\ color_data' = Zeros(unpack_1_output_len(bpp, header.width, header.height))
    /\ pc' = "unpack_1_loop"
    /\ UNCHANGED <<input, pos, overflow_checks, header, bpp, palette, clips, compressed_data,
                   y, zpos, overrun, result>>

Unpack1Step ==
    /\ pc = "unpack_1_loop"
    /\ unpack_1_continue(dst, Len(color_data))
    /\ LET st == unpack_1_iteration(compressed_data,
                     [res |-> Running, flag |-> flag, cur |-> cur, window |-> window,
                      win_pos |-> win_pos, output |-> color_data, dst |-> dst,
                      items |-> <<>>],
                     overflow_checks)
       IN  /\ trace' = trace \o st.items
           /\ IF st.res.kind # "Running"
              THEN Return(st.res) /\ UNCHANGED <<window, flag, win_pos, dst, cur, color_data>>
              ELSE /\ window' = st.window
                   /\ flag' = st.flag
                   /\ win_pos' = st.win_pos
                   /\ dst' = st.dst
                   /\ cur' = st.cur
                   /\ color_data' = st.output
                   /\ UNCHANGED <<pc, result>>
    /\ UNCHANGED <<input, pos, overflow_checks, header, bpp, palette, clips, compressed_data,
                   y, zpos, overrun>>

\* the loop is left with the output full: Ok(output)
Unpack1Return ==
    /\ pc = "unpack_1_loop"
    /\ ~unpack_1_continue(dst, Len(color_data))
    /\ pc' = "post"
    /\ UNCHANGED <<input, pos, overflow_checks, header, bpp, palette, clips, compressed_data,
                   color_data, unpackVars, result>>

(***************************************************************************)
(* unpack_2: the version-2/3 decompressor, rows of the inflated stream S.  *)
(***************************************************************************)
\* let pixel_size = if pixel_size == 1 { 3 } else { pixel_size }
PixelSize(b) == IF BytesPerPixel(b) = 1 THEN 3 ELSE BytesPerPixel(b)
IsPalette(b) == BytesPerPixel(b) = 1
Stride(b, width) == PixelSize(b) * width

\* the outcome of a row: res is Running when the row was decoded
RowOk(output, zp) == [res |-> Running, output |-> output, zpos |-> zp, overrun |-> FALSE]
RowFail(output, zp, res) == [res |-> res, output |-> output, zpos |-> zp, overrun |-> FALSE]

\* row_offset.checked_sub(stride) is None
NoPrevious(row_offset, stride) == stride > row_offset

\* mode 0 predicting from the byte before instead of the pixel before
row_mode_0_prev_byte(output, S, zp, row_offset, ps, stride) ==
    IF row_offset + ps > Len(output)
    THEN RowFail(output, zp, Panic("IndexOutOfBounds"))
    ELSE IF zp + ps > Len(S) \/ zp + stride > Len(S)
    THEN RowFail(output, zp, InflateError)
    ELSE LET row[xb \in 0..(stride - 1)] ==
                 IF xb < ps THEN U8At(S, zp + xb)
                 ELSE WrappingAdd(U8At(S, zp + xb), row[xb - 1])
         IN  RowOk(Overwrite(output, [i \in row_offset..(row_offset + stride - 1) |->
                                         row[i - row_offset]]),
                   zp + stride)

\* mode 0; zp is the stream position after the mode byte
row_mode_0(output, S, zp, row_offset, ps, stride) ==
    IF row_offset + ps > Len(output)
    THEN RowFail(output, zp, Panic("IndexOutOfBounds"))
    ELSE IF zp + ps > Len(S) \/ zp + stride > Len(S)
    THEN RowFail(output, zp, InflateError)
    ELSE LET row[xb \in 0..(stride - 1)] ==
                 IF xb < ps THEN U8At(S, zp + xb)
                 ELSE WrappingAdd(U8At(S, zp + xb), row[xb - ps])
         IN  RowOk(Overwrite(output, [i \in row_offset..(row_offset + stride - 1) |->
                                         row[i - row_offset]]),
                   zp + stride)

row_mode_1(output, S, zp, row_offset, ps, stride) ==
    IF NoPrevious(row_offset, stride)
    THEN RowFail(output, zp, Err("NoPreviousRow", 0, 0))
    ELSE IF zp + stride > Len(S)
    THEN RowFail(output, zp, InflateError)
    ELSE LET prev_row_offset == row_offset - stride
         IN  RowOk(Overwrite(output, [i \in row_offset..(row_offset + stride - 1) |->
                       WrappingAdd(U8At(S, zp + (i - row_offset)),
                                   U8At(output, prev_row_offset + (i - row_offset)))]),
                   zp + stride)

\* mode 2 reading its literal first pixel before it looks for the previous row
row_mode_2_read_first(output, S, zp, row_offset, ps, stride) ==
    IF row_offset + ps > Len(output)
    THEN RowFail(output, zp, Panic("IndexOutOfBounds"))
    ELSE IF zp + ps > Len(S)
    THEN RowFail(output, zp, InflateError)
    ELSE IF NoPrevious(row_offset, stride)
    THEN RowFail(output, zp + ps, Err("NoPreviousRow", 0, 0))
    ELSE IF zp + stride > Len(S)
    THEN RowFail(output, zp, InflateError)
    ELSE LET prev_row_offset == row_offset - stride
         IN  RowOk(Overwrite(output, [i \in row_offset..(row_offset + stride - 1) |->
                       LET xb == i - row_offset
                       IN  IF xb < ps THEN U8At(S, zp + xb)
                           ELSE WrappingAdd(U8At(S, zp + xb),
                                            U8At(output, prev_row_offset + xb - ps))]),
                   zp + stride)

row_mode_2(output, S, zp, row_offset, ps, stride) ==
    IF NoPrevious(row_offset, stride)
    THEN RowFail(output, zp, Err("NoPreviousRow", 0, 0))
    ELSE IF row_offset + ps > Len(output)
    THEN RowFail(output, zp, Panic("IndexOutOfBounds"))
    ELSE IF zp + ps > Len(S) \/ zp + stride > Len(S)
    THEN RowFail(output, zp, InflateError)
    ELSE LET prev_row_offset == row_offset - stride
         IN  RowOk(Overwrite(output, [i \in row_offset..(row_offset + stride - 1) |->
                       LET xb == i - row_offset
                       IN  IF xb < ps THEN U8At(S, zp + xb)
                           ELSE WrappingAdd(U8At(S, zp + xb),
                                            U8At(output, prev_row_offset + xb - ps))]),
                   zp + stride)

\* with stride < pixel_size the bound `stride - pixel_size` overflows: a
\* checked build panics there; a wrapping build enters the loop, reads one
\* byte and indexes the empty output
row_mode_3(output, S, zp, row_offset, ps, stride, checks) ==
    IF NoPrevious(row_offset, stride)
    THEN RowFail(output, zp, Err("NoPreviousRow", 0, 0))
    ELSE IF stride < ps
    THEN IF checks THEN RowFail(output, zp, Panic("SubtractOverflow"))
         ELSE IF zp + 1 > Len(S) THEN RowFail(output, zp, InflateError)
         ELSE RowFail(output, zp + 1, Panic("IndexOutOfBounds"))
    ELSE IF zp + stride > Len(S)
    THEN RowFail(output, zp, InflateError)
    ELSE LET prev_row_offset == row_offset - stride
         IN  RowOk(Overwrite(output, [i \in row_offset..(row_offset + stride - 1) |->
                       LET xb == i - row_offset
                       IN  IF xb < stride - ps
                           THEN WrappingAdd(U8At(S, zp + xb),
                                            U8At(output, prev_row_offset + xb + ps))
                           ELSE U8At(S, zp + xb)]),
                   zp + stride)

\* a run written to neighbouring bytes
run_cells_stride_1(xb, count, ps) == {xb + j : j \in 0..(count - 1)}

\* for _ in 0..count { output[xb] = next; xb += pixel_size; }: the cells written
run_cells(xb, count, ps) == {xb + j * ps : j \in 0..(count - 1)}

\* mode 4, the `while remaining > 0` loop of one component; st holds
\* [res, output, zpos, overrun, xb, remaining, val]
RECURSIVE mode_4_loop(_, _, _)
mode_4_loop(S, ps, st) ==
    IF ~(st.remaining > 0) THEN st
    ELSE IF st.xb >= Len(st.output)
    THEN [st EXCEPT !.res = Panic("IndexOutOfBounds")]
    ELSE
    LET out1 == [st.output EXCEPT ![st.xb + 1] = st.val]
        xb1 == st.xb + ps
        rem1 == st.remaining - 1
    IN  IF rem1 = 0
        THEN [st EXCEPT !.output = out1, !.xb = xb1, !.remaining = rem1]
        ELSE IF st.zpos + 1 > Len(S)
        THEN [st EXCEPT !.res = InflateError]
        ELSE
        LET next == U8At(S, st.zpos)
        IN  IF st.val = next
            THEN IF st.zpos + 2 > Len(S)
                 THEN [st EXCEPT !.res = InflateError]
                 ELSE
                 LET count == U8At(S, st.zpos + 1)
                     run == run_cells(xb1, count, ps)
                 IN  IF \E i \in run : i >= Len(out1)
                     THEN [st EXCEPT !.res = Panic("IndexOutOfBounds"),
                                     !.overrun = count > rem1]
                     ELSE IF count > rem1
                     THEN [st EXCEPT !.res = Err("RowOverflow", 0, 0), !.overrun = TRUE]
                     ELSE IF rem1 - count > 0
                     THEN IF st.zpos + 3 > Len(S)
                          THEN [st EXCEPT !.res = InflateError]
                          ELSE mode_4_loop(S, ps,
                                   [st EXCEPT !.output = Overwrite(out1, [i \in run |-> next]),
                                              !.xb = xb1 + count * ps,
                                              !.remaining = rem1 - count,
                                              !.val = U8At(S, st.zpos + 2),
                                              !.zpos = st.zpos + 3])
                     ELSE [st EXCEPT !.output = Overwrite(out1, [i \in run |-> next]),
                                     !.xb = xb1 + count * ps,
                                     !.remaining = 0,
                                     !.zpos = st.zpos + 2]
            ELSE mode_4_loop(S, ps,
                     [st EXCEPT !.output = out1, !.xb = xb1, !.remaining = rem1,
                                !.val = next, !.zpos = st.zpos + 1])

\* mode 4, `for pix_offset in 0..pixel_size`
RECURSIVE mode_4_components(_, _, _, _, _, _)
mode_4_components(S, ps, width, row_offset, st, pix_offset) ==
    IF pix_offset >= ps \/ st.res.kind # "Running" THEN st
    ELSE IF st.zpos + 1 > Len(S) THEN [st EXCEPT !.res = InflateError]
    ELSE mode_4_components(S, ps, width, row_offset,
             mode_4_loop(S, ps, [st EXCEPT !.xb = row_offset + pix_offset,
                                           !.remaining = width,
                                           !.val = U8At(S, st.zpos),
                                           !.zpos = st.zpos + 1]),
             pix_offset + 1)

row_mode_4(output, S, zp, row_offset, ps, width) ==
    LET st == mode_4_components(S, ps, width, row_offset,
                  [res |-> Running, output |-> output, zpos |-> zp, overrun |-> FALSE,
                   xb |-> 0, remaining |-> 0, val |-> 0], 0)
    IN  [res |-> st.res, output |-> st.output, zpos |-> st.zpos, overrun |-> st.overrun]

\* the body of `for y in 0..context.height`
decode_row(output, S, zp, yy, ps, width, checks) ==
    IF zp + 1 > Len(S) THEN RowFail(output, zp, InflateError)
    ELSE LET mode == U8At(S, zp)
             stride == ps * width
             row_offset == yy * stride
         IN  CASE mode = 0 -> row_mode_0(output, S, zp + 1, row_offset, ps, stride)
               [] mode = 1 -> row_mode_1(output, S, zp + 1, row_offset, ps, stride)
               [] mode = 2 -> row_mode_2(output, S, zp + 1, row_offset, ps, stride)
               [] mode = 3 -> row_mode_3(output, S, zp + 1, row_offset, ps, stride, checks)
               [] mode = 4 -> row_mode_4(output, S, zp + 1, row_offset, ps, width)
               [] OTHER -> RowFail(output, zp + 1, Err("InvalidRowDecodeMode", mode, 0))

\* a lookup that answers black for an index without an entry
palette_get_default(pal, index) ==
    IF index < Len(pal) THEN <<pal[index + 1]>> ELSE <<<<0, 0, 0>>>>

\* context.palette.get(index): <<entry>> for Some(entry), <<>> for None
palette_get(pal, index) == IF index < Len(pal) THEN <<pal[index + 1]>> ELSE <<>>

\* the palette case of unpack_2: the indices are read, then each is looked up
\* in turn and the first one without an entry fails
expand_palette(output, S, pal, width, height) ==
    IF width * height > Len(S)
    THEN RowFail(output, 0, InflateError)
    ELSE LET indices == Slice(S, 0, width * height)
             color == [pix \in 1..Len(indices) |-> palette_get(pal, indices[pix])]
             missing == {pix \in 1..Len(indices) : color[pix] = <<>>}
         IN  IF missing # {}
             THEN LET pix == CHOOSE k \in missing : \A j \in missing : k <= j
                  IN  RowFail(output, width * height,
                              Err("BadPaletteIndex", Len(pal), indices[pix]))
             ELSE RowOk(Overwrite(output,
                            [i \in 0..(3 * width * height - 1) |->
                                color[(i \div 3) + 1][1][(i % 3) + 1]]),
                        width * height)

Unpack2Begin ==
    /\ pc = "unpack_2"
    /\ color_data' = Zeros(Stride(bpp, header.width) * header.height)
    /\ y' = 0
    /\ zpos' = 0
    /\ pc' = IF IsPalette(bpp) THEN "unpack_2_palette" ELSE "unpack_2_rows"
    /\ UNCHANGED <<input, pos, overflow_checks, header, bpp, palette, clips, compressed_data,
                   window, flag, win_pos, dst, cur, overrun, trace, result>>

Unpack2Palette ==
    /\ pc = "unpack_2_palette"
    /\ LET r == expand_palette(color_data, Inflated(compressed_data), palette,
                               header.width, header.height)
       IN  /\ zpos' = r.zpos
           /\ IF r.res.kind # "Running"
              THEN Return(r.res) /\ UNCHANGED color_data
              ELSE color_data' = r.output /\ pc' = "post" /\ UNCHANGED result
    /\ UNCHANGED <<input, pos, overflow_checks, header, bpp, palette, clips, compressed_data,
                   y, window, flag, win_pos, dst, cur, overrun, trace>>

Unpack2Row ==
    /\ pc = "unpack_2_rows"
    /\ y < header.height
    /\ LET r == decode_row(color_data, Inflated(compressed_data), zpos, y, PixelSize(bpp),
                           header.width, overflow_checks)
       IN  /\ zpos' = r.zpos
           /\ overrun' = r.overrun
           /\ IF r.res.kind # "Running"
              THEN Return(r.res) /\ UNCHANGED <<color_data, y>>
              ELSE color_data' = r.output /\ y' = y + 1 /\ UNCHANGED <<pc, result>>
    /\ UNCHANGED <<input, pos, overflow_checks, header, bpp, palette, clips, compressed_data,
                   window, flag, win_pos, dst, cur, trace>>

\* all rows decoded: Ok(output)
Unpack2Return ==
    /\ pc = "unpack_2_rows"
    /\ ~(y < header.height)
    /\ pc' = "post"
    /\ UNCHANGED <<input, pos, overflow_checks, header, bpp, palette, clips, compressed_data,
                   color_data, unpackVars, result>>

(***************************************************************************)
(* The final passes of CrxFile::read and the returned record.              *)
(***************************************************************************)
\* an inversion for mode 0 only
alpha_flip_mode_0(mode) == IF 0 = mode THEN 255 ELSE 0

\* let alpha_flip: u8 = if 2 == header.mode { 0 } else { 0xFF }
alpha_flip(mode) == IF 2 = mode THEN 0 ELSE 255

\* the pass over 32-bpp data when header.mode != 1
rotate_alpha(data, npix, mode) ==
    [i \in 1..Len(data) |->
        LET offset == ((i - 1) \div 4) * 4
            k == (i - 1) % 4
        IN  IF (i - 1) \div 4 >= npix THEN data[i]
            ELSE IF k < 3 THEN data[offset + k + 2]
            ELSE BitXor(data[offset + 1], alpha_flip(mode))]

\* a swap whose loop stops one pixel early
swap_channels_skip_last(data, npix, pixel_byte) ==
    [i \in 1..Len(data) |->
        LET k == (i - 1) % pixel_byte
        IN  IF (i - 1) \div pixel_byte >= npix - 1 THEN data[i]
            ELSE IF k = 0 THEN data[i + 2]
            ELSE IF k = 2 THEN data[i - 2]
            ELSE data[i]]

\* color_data.swap(pix * pixel_byte, pix * pixel_byte + 2) for every pixel
swap_channels(data, npix, pixel_byte) ==
    [i \in 1..Len(data) |->
        LET k == (i - 1) % pixel_byte
        IN  IF (i - 1) \div pixel_byte >= npix THEN data[i]
            ELSE IF k = 0 THEN data[i + 2]
            ELSE IF k = 2 THEN data[i - 2]
            ELSE data[i]]

\* the alpha pass applied whatever header.mode is
post_process_any_mode(data, b, h) ==
    LET npix == h.height * h.width
        rotated == IF b = 32 THEN rotate_alpha(data, npix, h.mode) ELSE data
    IN  IF b # 8 THEN swap_channels(rotated, npix, b \div 8) ELSE rotated

post_process(data, b, h) ==
    LET npix == h.height * h.width
        rotated == IF b = 32 /\ h.mode # 1 THEN rotate_alpha(data, npix, h.mode) ELSE data
    IN  IF b # 8 THEN swap_channels(rotated, npix, b \div 8) ELSE rotated

\* bpp: if bpp == 8 { 24 } else { bpp }
FinalBpp(b) == IF b = 8 THEN 24 ELSE b

PostProcess ==
    /\ pc = "post"
    /\ color_data' = post_process(color_data, bpp, header)
    /\ Return(Ok([inner_x |-> header.inner_x, inner_y |-> header.inner_y,
                  width |-> header.width, height |-> header.height,
                  bpp |-> FinalBpp(bpp), clips |-> clips,
                  raw_image_buffer |-> color_data']))
    /\ UNCHANGED <<input, pos, overflow_checks, header, bpp, palette, clips, compressed_data,
                   unpackVars>>

(***************************************************************************)
(* The input files the reader is given: the byte layout the parser above   *)
(* reads back, for a bounded family of headers, palettes, clip tables and  *)
(* payloads.                                                               *)
(***************************************************************************)
LE16(v) == <<v % 256, (v \div 256) % 256>>
LE32(v) == <<v % 256, (v \div 256) % 256, (v \div 65536) % 256, (v \div 16777216) % 256>>

HeaderBytes(h) ==
    LE16(h.inner_x) \o LE16(h.inner_y) \o LE16(h.width) \o LE16(h.height)
        \o LE16(h.version) \o LE16(h.flag) \o LE16(h.depth) \o LE16(h.mode)

\* n bytes a, a + s, a + 2s, ... (mod 256)
Fill(n, a, s) == [i \in 1..n |-> (a + (i - 1) * s) % 256]

RECURSIVE Adler(_, _, _, _)
Adler(d, k, a, b) ==
    IF k > Len(d) THEN <<b \div 256, b % 256, a \div 256, a % 256>>
    ELSE Adler(d, k + 1, (a + d[k]) % 65521, (b + a + d[k]) % 65521)

\* a zlib stream holding d in one final stored block
ZlibStored(d) ==
    <<120, 1, 1>> \o LE16(Len(d)) \o LE16(65535 - Len(d)) \o d \o Adler(d, 1, 1, 0)

Headers(widths, heights, versions, flags, depths, modes) ==
    {[inner_x |-> 3, inner_y |-> -2, width |-> w, height |-> h, version |-> v,
      flag |-> f, depth |-> d, mode |-> m] :
        w \in widths, h \in heights, v \in versions, f \in flags, d \in depths, m \in modes}

Widths == 0..MaxWidth
Heights == 0..MaxHeight
Flags == {0, 16}
Modes == {0, 1, 2, 65535}

\* the payload as it lies in the file: length-prefixed and followed by one
\* more byte, or running to the end of the file
PayloadBytes(f, blob) ==
    IF (f \div 16) % 2 = 1 THEN LE32(Len(blob)) \o blob \o <<238>> ELSE blob

\* clip tables: the count, then the records
ClipRecord(k) == LE32(k) \o LE16(-k) \o LE16(k + 1) \o LE32(-65536 * k) \o LE16(7) \o LE16(-1)
ClipTable(n) == LE32(n) \o Concat([k \in 1..n |-> ClipRecord(k)])
ClipTables(version) ==
    IF version >= 3 THEN {ClipTable(n) : n \in 0..MaxClips} ELSE {<<>>}

\* palettes in the file: rotations of three colours, one of them (0xFF, 0, 0xFF)
PaletteColors == <<<<0, 0, 0>>, <<255, 0, 255>>, <<1, 2, 3>>>>
PaletteBytes(depth, rot) ==
    LET n == IF colors(depth) < 0 THEN 0 ELSE colors(depth)
        size == color_size(depth)
    IN  [i \in 1..(n * size) |->
            LET k == (i - 1) \div size
                c == (i - 1) % size
            IN  IF c = 3 THEN k % 256 ELSE PaletteColors[((k + rot) % 3) + 1][c + 1]]
PaletteDepths == {-1} \cup 2..MaxDepth

\* index streams for n pixels, exact, one byte short, one byte long
IndexStreams(n) ==
    {Fill(n, a, s) : a \in {0, 1, 255}, s \in {0, 1}}
        \cup {Fill(n + 1, 0, 0)} \cup (IF n > 0 THEN {Fill(n - 1, 0, 0)} ELSE {})

\* rows of the filtered stream
DeltaRow(m, ps, width, a, s) == <<m>> \o Fill(ps * width, a, s)

\* mode 4, one component: a run that fills the row, or distinct samples
ExactRun(width, v) == IF width <= 1 THEN Fill(width, v, 0) ELSE <<v, v, width - 1>>
NoRun(width, v) == Fill(width, v, 1)
\* a run of k after the first sample
Run(v, k) == <<v, v, k>>

Mode4Exact(ps, width) == <<4>> \o Concat([p \in 1..ps |-> ExactRun(width, 16 * p)])
Mode4NoRun(ps, width) == <<4>> \o Concat([p \in 1..ps |-> NoRun(width, 16 * p)])
\* component c (from 1) carries a run of k, the others fill the row exactly
Mode4Run(ps, width, c, k) ==
    <<4>> \o Concat([p \in 1..ps |-> IF p = c THEN Run(16 * p, k) ELSE ExactRun(width, 16 * p)])

\* rows that decode at row yy
GoodRows(ps, width, yy) ==
    {DeltaRow(0, ps, width, 0, 17), DeltaRow(0, ps, width, 240, 23),
     Mode4Exact(ps, width), Mode4NoRun(ps, width)}
        \cup (IF yy > 0 /\ width > 0 THEN {DeltaRow(m, ps, width, 5, 50) : m \in 1..3} ELSE {})

\* rows after which nothing more is read
LastRows(ps, width, yy) ==
    {<<>>, <<5>>, <<0>>}
        \cup (IF yy = 0 \/ width = 0 THEN {DeltaRow(m, ps, width, 5, 50) : m \in 1..3} ELSE {})
        \cup (IF width >= 2
              THEN {Mode4Run(ps, width, c, width) : c \in 1..ps}
                       \cup {Mode4Run(ps, width, 1, 255)}
              ELSE {})

RECURSIVE RowStreams(_, _, _, _)
RowStreams(ps, width, height, yy) ==
    IF yy >= height THEN {<<>>, <<9>>}
    ELSE LastRows(ps, width, yy)
             \cup {g \o rest : g \in GoodRows(ps, width, yy),
                               rest \in RowStreams(ps, width, height, yy + 1)}

\* version-1 payloads: a flag byte, a literal, seven back-references of one
\* kind, then literals
V1Item(kind) ==
    CASE kind = 0 -> <<196, 1>>
      [] kind = 1 -> <<161>>
      [] kind = 2 -> <<160, 2>>
      [] kind = 3 -> <<127, 1, 0, 1, 0>>
      [] kind = 4 -> <<0, 1, 0>>
      [] kind = 5 -> <<133>>
      [] kind = 6 -> <<129>>
V1Payloads ==
    {<<1, 171>> \o Repeat(V1Item(k), 7) \o <<255>> \o Fill(8, 1, 1) : k \in 0..6}
        \cup {<<255>> \o Fill(8, 200, 20) \o <<255>> \o Fill(8, 0, 3)}
        \cup {<<0>> \o V1Item(5) \o V1Item(1), <<>>, <<255, 7>>, <<2, 171, 127, 1>>}

File(h, pal, clip, payload) ==
    CRX_SIGNATURE \o HeaderBytes(h) \o pal \o clip \o PayloadBytes(h.flag, payload)

\* files that are cut short, carry a wrong signature or an unsupported version
BadSignatureFiles ==
    {sig \o tail : sig \in {<<67, 82, 88, 70>>, <<99, 82, 88, 71>>, <<0, 0, 0, 0>>},
                   tail \in {<<>>, HeaderBytes(NoHeader),
                             HeaderBytes([NoHeader EXCEPT !.version = 2]) \o ZlibStored(<<>>)}}
BadVersionFiles ==
    {File(h, <<>>, <<>>, p) :
        h \in Headers({1}, {1}, {0, 4, 65535}, Flags, {-1, 0, 1, 2, 258}, {0}),
        p \in {<<>>, <<1, 2, 3, 4, 5, 6, 7, 8>>}}
TruncatedFiles ==
    LET f == File([NoHeader EXCEPT !.version = 3, !.depth = 2, !.flag = 16, !.width = 1,
                                   !.height = 1],
                  PaletteBytes(2, 0), ClipTable(1), ZlibStored(<<0>>))
    IN  {SubSeq(f, 1, n) : n \in 0..Len(f)}
\* a negative clip count, a negative payload length
NegativeCountFiles ==
    {CRX_SIGNATURE \o HeaderBytes(h) \o LE32(n) \o ZlibStored(<<>>) :
        h \in Headers({1}, {1}, {2, 3}, Flags, {0}, {0}), n \in {-1, -2147483647 - 1}}

V1Files ==
    {File(h, IF DepthToBpp(h.depth) = 8 THEN PaletteBytes(h.depth, 0) ELSE <<>>, <<>>, p) :
        h \in Headers(Widths, Heights, {1}, Flags, {0, 1, 2}, {0, 1}), p \in V1Payloads}

\* streams that decode: left-predicted rows, a left-predicted row under
\* up-predicted rows, rows of distinct samples in mode 4
SampleStreams(ps, width, height) ==
    {Repeat(DeltaRow(0, ps, width, 0, 17), height),
     Repeat(DeltaRow(0, ps, width, 240, 23), IF height > 0 THEN 1 ELSE 0)
         \o Repeat(DeltaRow(1, ps, width, 5, 50), height - 1),
     Repeat(Mode4NoRun(ps, width), height)}

\* 8-bpp files: every index stream under a plain header, and one index
\* stream under every header and clip table
PaletteFiles ==
    UNION {{File(h, PaletteBytes(h.depth, rot), <<>>, ZlibStored(s)) :
                rot \in 0..2, s \in IndexStreams(h.width * h.height)} :
           h \in Headers(Widths, Heights, {2}, {0}, PaletteDepths, {0})}
        \cup UNION {{File(h, PaletteBytes(h.depth, 0), clip,
                          ZlibStored(Fill(h.width * h.height, 0, 1))) :
                        clip \in ClipTables(h.version)} :
                    h \in Headers(Widths, Heights, {2, 3}, Flags, {2}, {0, 1})}
        \cup {File(h, PaletteBytes(258, 0), <<>>, ZlibStored(s)) :
                h \in Headers({1}, {1}, {2}, {0}, {258}, {0}), s \in {<<255>>, <<1>>}}

\* 24- and 32-bpp files: every row stream under a plain header, and the
\* sample streams under every header and clip table
DirectFiles ==
    UNION {{File(h, <<>>, <<>>, ZlibStored(s)) :
                s \in RowStreams(PixelSize(DepthToBpp(h.depth)), h.width, h.height, 0)} :
           h \in Headers(Widths, Heights, {2}, {0}, {0}, {0})
                     \cup Headers(Widths, Heights, {2}, {0}, {1}, {0, 1, 2})}
        \cup UNION {{File(h, <<>>, clip, ZlibStored(s)) :
                        clip \in ClipTables(h.version),
                        s \in SampleStreams(PixelSize(DepthToBpp(h.depth)), h.width,
                                            h.height)} :
                    h \in Headers(Widths, Heights, {2, 3}, Flags, {0, 1}, Modes)}
        \cup {File(h, <<>>, <<>>, <<1, 2, 3>>) :
                h \in Headers({0, 1}, {0, 1}, {2}, Flags, {0, 2}, {0})}

\* single images: a header without offsets, flags or header mode, and a payload
Image(width, height, version, depth, payload) ==
    File([NoHeader EXCEPT !.width = width, !.height = height, !.version = version,
                          !.depth = depth],
         <<>>, IF version >= 3 THEN ClipTable(0) ELSE <<>>, payload)

\* two pixels in one left-predicted row
S1Stream == <<0, 16, 32, 48, 1, 2, 3>>

\* version 1: one literal and a back-reference of distance 1; three
\* literals and a back-reference of count 9 and distance 3
RunPayload == <<1, 171, 212, 1>>
OverlapPayload == <<7, 10, 20, 30, 212, 3>>

\* version 1, an output of more than 0x10000 bytes: three literals, a
\* back-reference of count 0xFFFF + 2 and distance 3 that takes the window
\* cursor once around, one of count 4 and distance 5 that reaches back
\* across the end of the window, one of count 257 and distance 3 of which
\* the output takes 248
LongPayload == <<7, 10, 20, 30, 127, 255, 255, 3, 0, 0, 5, 0, 127, 255, 0, 3, 0>>

\* one pixel in a left-predicted row over one in an up-predicted row
S2Stream == <<0, 0, 0, 0, 1, 5, 5, 5>>

\* two left-predicted rows of three pixels whose deltas are all zero
SolidStream == <<0, 9, 8, 7, 0, 0, 0, 0, 0, 0, 0, 1, 2, 3, 0, 0, 0, 0, 0, 0>>

\* one mode-4 row of four pixels, each component a sample and a run of three
S4Stream == <<4, 16, 16, 3, 16, 16, 3, 16, 16, 3>>

\* one mode-4 row of three pixels, each component a sample, an empty run, a
\* fresh sample and a differing sample
EmptyRunStream == <<4, 16, 16, 0, 32, 48, 17, 17, 0, 33, 49, 18, 18, 0, 34, 50>>

\* the image of S1Stream under flags with other bits than 0x10 set
OtherFlags == {1, 17, 32, 65519, 65535}
FlagFiles ==
    {File([NoHeader EXCEPT !.width = 2, !.height = 1, !.version = v, !.flag = f],
          <<>>, IF v >= 3 THEN ClipTable(1) ELSE <<>>, ZlibStored(S1Stream)) :
        v \in {2, 3}, f \in OtherFlags}

ScenarioFiles ==
    {Image(2, 1, 2, 0, ZlibStored(S1Stream)),
     Image(4, 1, 2, 0, ZlibStored(S4Stream)),
     Image(3, 1, 3, 0, ZlibStored(EmptyRunStream \o <<0>>)),
     Image(1, 2, 2, 0, ZlibStored(S2Stream)),
     Image(3, 2, 2, 0, ZlibStored(SolidStream)),
     Image(2, 2, 1, 0, RunPayload),
     Image(2, 2, 1, 0, OverlapPayload),
     File([NoHeader EXCEPT !.width = 257, !.height = 256, !.version = 1, !.depth = 2],
          PaletteBytes(2, 0), <<>>, LongPayload)}

InputFiles ==
    BadSignatureFiles \cup BadVersionFiles \cup TruncatedFiles \cup NegativeCountFiles
        \cup V1Files \cup PaletteFiles \cup DirectFiles \cup ScenarioFiles
        \cup FlagFiles

(***************************************************************************)
(* The state machine.                                                      *)
(***************************************************************************)
Init ==
    /\ input \in InputFiles
    /\ overflow_checks \in BOOLEAN
    /\ pos = 0
    /\ pc = "signature"
    /\ header = NoHeader
    /\ bpp = 0
    /\ palette = <<>>
    /\ clips = <<>>
    /\ compressed_data = <<>>
    /\ color_data = <<>>
    /\ y = 0
    /\ zpos = 0
    /\ window = <<>>
    /\ flag = 0
    /\ win_pos = 0
    /\ dst = 0
    /\ cur = 0
    /\ overrun = FALSE
    /\ trace = <<>>
    /\ result = Running

Next ==
    \/ ReadSignature
    \/ ReadHeader
    \/ ReadPalette
    \/ ReadClip
    \/ ReadPayload
    \/ Unpack1Begin
    \/ Unpack1Step
    \/ Unpack1Return
    \/ Unpack2Begin
    \/ Unpack2Palette
    \/ Unpack2Row
    \/ Unpack2Return
    \/ PostProcess

Spec == Init /\ [][Next]_vars

(***************************************************************************)
(* Properties.                                                             *)
(***************************************************************************)
\* the inflated stream of the payload read so far
InflatedStream == Inflated(compressed_data)
Pixels == header.width * header.height
IsDirect == header.version \in 2..3 /\ bpp \in {24, 32}
IsIndexed == header.version \in 2..3 /\ bpp = 8

\* C1: for every accepted input the returned pixel buffer has length
\* width * height * (bpp() / 8), bpp() being the bpp stored in the record.
C1_BufferSize ==
    result.kind = "Ok" =>
        Len(result.file.raw_image_buffer)
            = result.file.width * result.file.height * (result.file.bpp \div 8)

\* C2: CrxFile::read ends by returning a CrxFile or one error; it never
\* terminates abnormally.
C2_NoAbnormalTermination ==
    pc = "done" => result.kind \in {"Ok", "Err"}

\* C3: an input of at least four bytes that does not start with "CRXG" fails
\* with the signature error, and exactly four bytes have been consumed then.
C3_SignatureRejected ==
    (pc # "signature" /\ Len(input) >= 4 /\ SubSeq(input, 1, 4) # <<67, 82, 88, 71>>)
        => /\ pc = "done"
           /\ result = Err("CrxSignatureInvalid", 0, 0)
           /\ pos = 4

\* an input with more than the four bytes was rejected for its signature
C3_Witness ==
    /\ pc = "done"
    /\ result.name = "CrxSignatureInvalid"
    /\ Len(input) > 20
    /\ SubSeq(input, 1, 3) = <<67, 82, 88>>

\* C4: a header whose version is outside {1,2,3} fails with the version
\* error carrying that version, and nothing past the 20 bytes of signature
\* and header has been consumed, whatever depth and flag say.
C4_VersionGuard ==
    (/\ pc \notin {"signature", "header"}
     /\ Len(input) >= 20
     /\ SubSeq(input, 1, 4) = <<67, 82, 88, 71>>
     /\ U16At(input, 12) \notin {1, 2, 3})
        => /\ pc = "done"
           /\ result = Err("VersionNotSupported", U16At(input, 12), 0)
           /\ pos = 20
           /\ palette = <<>> /\ clips = <<>> /\ compressed_data = <<>>

\* version 65535 was rejected in a file that announces a palette and a length-prefixed payload
C4_Witness ==
    /\ pc = "done"
    /\ result.name = "VersionNotSupported"
    /\ result.a = 65535
    /\ I16At(input, 16) = 2
    /\ U16At(input, 14) = 16
    /\ Len(input) > 20

\* C5: in a direct-colour image, a mode-4 run whose count exceeds the
\* samples remaining in its component fails with RowOverflow, in every row
\* and every component.
C5_RowOverflow ==
    overrun => result = Err("RowOverflow", 0, 0)

\* C6: in a direct-colour image of width >= 1, filter mode 1, 2 or 3 on row 0
\* fails with NoPreviousRow, with only the mode byte taken from the stream and
\* no byte of the output written.
C6_NoPreviousRow ==
    (/\ IsDirect
     /\ header.width >= 1 /\ header.height >= 1
     /\ Len(InflatedStream) >= 1 /\ InflatedStream[1] \in {1, 2, 3}
     /\ (pc \in {"post", "done"} \/ (pc = "unpack_2_rows" /\ y > 0)))
        => /\ pc = "done"
           /\ result = Err("NoPreviousRow", 0, 0)
           /\ zpos = 1
           /\ Len(color_data) = PixelSize(bpp) * header.width * header.height
           /\ \A i \in 1..Len(color_data) : color_data[i] = 0

\* mode 2 on row 0 of a two-pixel row failed although the stream held the literal pixel
C6_Witness ==
    /\ IsDirect
    /\ result = Err("NoPreviousRow", 0, 0)
    /\ InflatedStream[1] = 2
    /\ Len(InflatedStream) > PixelSize(bpp)
    /\ header.width = 2

\* the palette case of unpack_2 got as far as looking up the indices
IndicesLookedUp ==
    /\ IsIndexed
    /\ pc \in {"post", "done"}
    /\ result.name \notin {"UnexpectedEof", "CapacityOverflow", "Inflate"}

\* C7: in palette expansion the first index i >= len(palette) fails with the
\* palette-index error carrying (len(palette), i), and without such an index
\* the expansion succeeds; with a negative depth the palette is empty and
\* every index fails.
C7_PaletteIndexChecked ==
    IndicesLookedUp =>
        LET indices == SubSeq(InflatedStream, 1, Pixels)
            bad == {k \in 1..Pixels : indices[k] >= Len(palette)}
        IN  /\ Len(indices) = Pixels
            /\ (header.depth < 0 => Len(palette) = 0)
            /\ IF bad = {}
               THEN result.kind \in {"Running", "Ok"}
               ELSE \E k \in bad :
                        /\ \A j \in bad : k <= j
                        /\ result = Err("BadPaletteIndex", Len(palette), indices[k])

\* with a negative depth, index 0 of a non-empty image was refused against an empty palette
C7_Witness ==
    /\ IsIndexed
    /\ header.depth < 0
    /\ result = Err("BadPaletteIndex", 0, 0)

\* the palette entry k (from 0) as it lies in the file, with (0xFF, 0, 0xFF) replaced
FileEntry(k) ==
    LET size == IF header.depth = 258 THEN 4 ELSE 3
        e == SubSeq(input, 20 + k * size + 1, 20 + k * size + 3)
    IN  IF e = <<255, 0, 255>> THEN <<255, 255, 255>> ELSE e

\* C8: for an accepted 8-bpp version-2/3 input, output pixel p is the three
\* bytes (r, g, b) of the palette entry indices[p] as read from the file, with
\* (0xFF, 0, 0xFF) replaced by (0xFF, 0xFF, 0xFF), and no channel swap.
C8_PaletteExpansion ==
    (IsIndexed /\ result.kind = "Ok") =>
        LET indices == SubSeq(InflatedStream, 1, Pixels)
            out == result.file.raw_image_buffer
        IN  /\ Len(out) = 3 * Pixels
            /\ \A p \in 0..(Pixels - 1) :
                   SubSeq(out, 3 * p + 1, 3 * p + 3) = FileEntry(indices[p + 1])

\* an image of two pixels, one from the replaced entry, one from the entry (1, 2, 3)
C8_Witness ==
    /\ IsIndexed
    /\ result.kind = "Ok"
    /\ Pixels = 2
    /\ result.file.raw_image_buffer \in {<<255, 255, 255, 1, 2, 3>>, <<1, 2, 3, 255, 255, 255>>}

\* C9: for a 32-bpp image with header mode # 1, every decompressed pixel
\* [A,B,G,R] ends as [R,G,B,A'], A' = A when mode = 2 and A XOR 0xFF otherwise.
C9_AlphaRotation ==
    [][(pc = "post" /\ bpp = 32 /\ header.mode # 1) =>
          /\ Len(color_data') = 4 * Pixels
          /\ \A p \in 0..(Pixels - 1) :
                 SubSeq(color_data', 4 * p + 1, 4 * p + 4)
                     = <<color_data[4 * p + 4], color_data[4 * p + 3], color_data[4 * p + 2],
                         IF header.mode = 2 THEN color_data[4 * p + 1]
                         ELSE 255 - color_data[4 * p + 1]>>]_vars

\* a 32-bpp image with mode 65535 was returned whose first pixel had A = 0
\* decompressed: its alpha is 0xFF
C9_Witness ==
    /\ result.kind = "Ok"
    /\ bpp = 32
    /\ header.mode = 65535
    /\ Pixels >= 2
    /\ result.file.raw_image_buffer[4] = 255
    /\ result.file.raw_image_buffer[1] # result.file.raw_image_buffer[3]

\* C10: for a 32-bpp image with header mode = 1, every decompressed pixel
\* [A,B,G,R] ends as [G,B,A,R]: bytes 0 and 2 exchanged, nothing else.
C10_ModeOneSwapOnly ==
    [][(pc = "post" /\ bpp = 32 /\ header.mode = 1) =>
          /\ Len(color_data') = 4 * Pixels
          /\ \A p \in 0..(Pixels - 1) :
                 SubSeq(color_data', 4 * p + 1, 4 * p + 4)
                     = <<color_data[4 * p + 3], color_data[4 * p + 2], color_data[4 * p + 1],
                         color_data[4 * p + 4]>>]_vars

\* a 32-bpp image with mode 1 was returned with four different bytes in its first pixel
C10_Witness ==
    /\ result.kind = "Ok"
    /\ bpp = 32
    /\ header.mode = 1
    /\ Pixels >= 2
    /\ Cardinality({result.file.raw_image_buffer[i] : i \in 1..4}) = 4

\* C11: for every accepted 24-bpp input, whatever the version and the header
\* mode, each decompressed pixel [B,G,R] ends as [R,G,B]: bytes 0 and 2 of
\* each of the width * height pixels are exchanged once, nothing else changes.
C11_ChannelSwap24 ==
    [][(pc = "post" /\ bpp = 24) =>
          /\ Len(color_data) = 3 * Pixels
          /\ Len(color_data') = 3 * Pixels
          /\ \A p \in 0..(Pixels - 1) :
                 SubSeq(color_data', 3 * p + 1, 3 * p + 3)
                     = <<color_data[3 * p + 3], color_data[3 * p + 2], color_data[3 * p + 1]>>
          /\ result'.kind = "Ok"
          /\ result'.file.raw_image_buffer = color_data']_vars

\* a 24-bpp image of two rows with header mode 65535 was returned, the last
\* pixel with different first and third bytes
C11_Witness ==
    /\ result.kind = "Ok"
    /\ bpp = 24
    /\ header.mode = 65535
    /\ header.height = 2 /\ header.width >= 1
    /\ result.file.raw_image_buffer[3 * Pixels] # result.file.raw_image_buffer[3 * Pixels - 2]

\* the 2x1 24-bpp version-2 image of scenario S1 has been read
IsS1 ==
    /\ header.version = 2 /\ bpp = 24
    /\ header.width = 2 /\ header.height = 1
    /\ InflatedStream = <<0, 16, 32, 48, 1, 2, 3>>

\* C12 as stated: scenario S1 decodes to [0x30,0x20,0x10, 0x33,0x22,0x13].
C12_ScenarioS1_Stated ==
    (IsS1 /\ pc = "done") =>
        /\ result.kind = "Ok"
        /\ result.file.raw_image_buffer = <<48, 32, 16, 51, 34, 19>>

\* C12, amended: scenario S1 (mode-0 row, literal first pixel, three deltas)
\* decodes to [0x30,0x20,0x10, 0x33,0x22,0x11].
C12_ScenarioS1 ==
    (IsS1 /\ pc = "done") =>
        /\ result.kind = "Ok"
        /\ result.file.raw_image_buffer = <<48, 32, 16, 51, 34, 17>>

\* the image of scenario S1 was decoded and returned
C12_Witness ==
    /\ IsS1
    /\ pc = "done"
    /\ result.kind = "Ok"
    /\ Len(result.file.raw_image_buffer) = 6

\* the item the step of the version-1 loop being taken has decoded
StepDecodes == pc = "unpack_1_loop" /\ Len(trace') = Len(trace) + 1
Decoded == trace'[Len(trace')]

\* C13: in the version-1 decompressor a back-reference (count, back) with
\* 1 <= back <= number of bytes already output copies byte-wise, so that each
\* byte it puts out equals the output byte `back` positions earlier, also when
\* back < count; it puts out count bytes unless the output fills first, and
\* leaves the bytes already there alone.
C13_BackReferenceCopy ==
    [][(StepDecodes /\ ~Decoded.literal /\ Decoded.back >= 1 /\ Decoded.back <= dst) =>
          LET room == Len(color_data) - dst
              n == IF Decoded.count < room THEN Decoded.count ELSE room
          IN  /\ pc' = "unpack_1_loop"
              /\ dst' = dst + n
              /\ Len(color_data') = Len(color_data)
              /\ \A i \in 1..dst : color_data'[i] = color_data[i]
              /\ \A i \in (dst + n + 1)..Len(color_data) : color_data'[i] = color_data[i]
              /\ \A i \in (dst + 1)..(dst + n) :
                     color_data'[i] = color_data'[i - Decoded.back]]_vars

\* C15: in the version-1 decompressor every back-reference starts its copy
\* at window cell (win_pos - back) mod 0x10000, for every win_pos and every
\* back in 0..0xFFFF, also when back > win_pos: the reference wraps to the
\* top of the window and does not fail.
C15_SourceCursor ==
    \A k \in 1..Len(trace) :
        ~trace[k].literal =>
            /\ trace[k].back \in 0..65535
            /\ trace[k].win_pos \in 0..65535
            /\ trace[k].src = (trace[k].win_pos - trace[k].back) % 65536

\* C16: in the version-1 decompressor the flag register is loaded from the
\* input in the first iteration and in every 8th one after it, and the
\* control byte loaded decides the 8 items from there on, bit 0 first:
\* a literal for a 1, a back-reference for a 0.
C16_FlagReload ==
    \A k \in 1..Len(trace) :
        LET bit == (k - 1) % 8
            control == compressed_data[trace[k - bit].at + 1]
        IN  /\ trace[k].reload = (bit = 0)
            /\ trace[k].literal = ((control \div (2 ^ bit)) % 2 = 1)

\* a second control byte has been loaded, after a first whose bits chose a
\* literal and then seven back-references
C16_Witness ==
    /\ Len(trace) >= 9
    /\ trace[1].literal
    /\ \A k \in 2..8 : ~trace[k].literal /\ ~trace[k].reload
    /\ trace[9].reload /\ trace[9].literal
    /\ result.kind = "Ok"

\* C20: an iteration of the version-1 loop takes at least one byte of the
\* payload or ends with the short-read error; the loop is left with the
\* output full or with that error, never with a partly filled buffer as
\* success.
C20_LoopEnds ==
    [][pc = "unpack_1_loop" =>
          /\ pc' = "unpack_1_loop" => (cur' > cur /\ cur' <= Len(compressed_data))
          /\ pc' = "post" => (dst = Len(color_data) /\ color_data' = color_data)
          /\ pc' = "done" => result' = UnexpectedEof]_vars

\* where the clip table starts in the file, if there is one: behind the
\* signature, the header and the palette of an 8-bpp image
ClipTableAt ==
    20 + (IF header.depth \in {0, 1} THEN 0
          ELSE IF header.depth < 0 THEN 0
          ELSE IF header.depth = 258 THEN 1024
          ELSE IF header.depth > 256 THEN 768
          ELSE 3 * header.depth)

\* the 16 bytes of a clip record with the field values of c
I16Range == -32768..32767
ClipBytes(c) ==
    LE32(c.field_1) \o LE16(c.field_2) \o LE16(c.field_3)
        \o LE32(c.field_4) \o LE16(c.field_5) \o LE16(c.field_6)
IsFileClip(c, k) ==
    /\ c.field_1 < 0 => c.field_1 + 2147483647 >= -1
    /\ c.field_4 < 0 => c.field_4 + 2147483647 >= -1
    /\ c.field_2 \in I16Range /\ c.field_3 \in I16Range
    /\ c.field_5 \in I16Range /\ c.field_6 \in I16Range
    /\ ClipBytes(c) = SubSeq(input, ClipTableAt + 4 + 16 * (k - 1) + 1,
                             ClipTableAt + 4 + 16 * k)

RowDecoded == pc = "unpack_2_rows" /\ y' = y + 1
RowMode == InflatedStream[zpos + 1]
RowDelta(xb) == InflatedStream[zpos + 1 + xb + 1]
RowPixelSize == bpp \div 8
RowStride == RowPixelSize * header.width
RowAt(buf, row, xb) == buf[row * RowStride + xb + 1]

\* the 1x2 24-bpp version-2 image of scenario S2 has been read
IsS2 ==
    /\ header.version = 2 /\ bpp = 24
    /\ header.width = 1 /\ header.height = 2
    /\ InflatedStream = <<0, 0, 0, 0, 1, 5, 5, 5>>

\* C17: in a version-2/3 direct-colour image every byte of a row of mode 0..3
\* is (delta + predictor) mod 256, the predictor being the byte pixel_size to
\* the left in the row (mode 0), the byte above (mode 1), the byte above and
\* pixel_size to the left (mode 2) or to the right (mode 3); the first pixel
\* (modes 0, 2) or the last pixel (mode 3) is the literal bytes of the stream;
\* the row takes 1 + stride stream bytes.  A mode-0 row of zero deltas is one
\* colour, and row (0,0,0) under a mode-1 row (5,5,5) gives pixel (5,5,5).
C17_RowPrediction ==
    /\ [][(RowDecoded /\ IsDirect /\ RowMode \in 0..3) =>
            /\ zpos' = zpos + 1 + RowStride
            /\ Len(color_data') = Len(color_data)
            /\ \A xb \in 0..(RowStride - 1) :
                   RowAt(color_data', y, xb) =
                       CASE RowMode = 0 ->
                              IF xb < RowPixelSize THEN RowDelta(xb)
                              ELSE (RowDelta(xb) + RowAt(color_data', y, xb - RowPixelSize)) % 256
                         [] RowMode = 1 ->
                              (RowDelta(xb) + RowAt(color_data, y - 1, xb)) % 256
                         [] RowMode = 2 ->
                              IF xb < RowPixelSize THEN RowDelta(xb)
                              ELSE (RowDelta(xb)
                                      + RowAt(color_data, y - 1, xb - RowPixelSize)) % 256
                         [] RowMode = 3 ->
                              IF xb >= RowStride - RowPixelSize THEN RowDelta(xb)
                              ELSE (RowDelta(xb)
                                      + RowAt(color_data, y - 1, xb + RowPixelSize)) % 256
            /\ (RowMode = 0 /\ \A xb \in RowPixelSize..(RowStride - 1) : RowDelta(xb) = 0) =>
                   \A xb \in 0..(RowStride - 1) :
                       RowAt(color_data', y, xb) = RowDelta(xb % RowPixelSize)]_vars
    /\ []((IsS2 /\ pc = "done") =>
            /\ result.kind = "Ok"
            /\ SubSeq(result.file.raw_image_buffer, 4, 6) = <<5, 5, 5>>)

\* a row of two or more pixels predicted from the upper right has been
\* decoded with a sum that went past 0xFF
C17_Witness ==
    /\ pc = "unpack_2_rows"
    /\ IsDirect
    /\ header.width >= 2
    /\ y >= 2
    /\ zpos >= 2 * (1 + RowStride)
    /\ InflatedStream[zpos - RowStride] = 3
    /\ \E xb \in 0..(RowStride - RowPixelSize - 1) :
           /\ InflatedStream[zpos - RowStride + 1 + xb]
                  + RowAt(color_data, y - 2, xb + RowPixelSize) > 255
           /\ RowAt(color_data, y - 1, xb) =
                  (InflatedStream[zpos - RowStride + 1 + xb]
                       + RowAt(color_data, y - 2, xb + RowPixelSize)) % 256

\* one component of a mode-4 row read as the run-length code: a is the
\* running value, p the stream bytes taken so far, left the samples the
\* component still lacks; the samples, and ok when no count exceeds the
\* samples lacking and the stream holds every byte asked for
RECURSIVE RunLengthSamples(_, _, _, _)
RunLengthSamples(S, p, a, left) ==
    IF left = 0 THEN [ok |-> TRUE, samples |-> <<>>, pos |-> p]
    ELSE IF left = 1 THEN [ok |-> TRUE, samples |-> <<a>>, pos |-> p]
    ELSE IF p >= Len(S) THEN [ok |-> FALSE, samples |-> <<>>, pos |-> p]
    ELSE IF S[p + 1] # a
    THEN LET rest == RunLengthSamples(S, p + 1, S[p + 1], left - 1)
         IN  [rest EXCEPT !.samples = <<a>> \o rest.samples]
    ELSE IF p + 1 >= Len(S) \/ S[p + 2] > left - 1
    THEN [ok |-> FALSE, samples |-> <<>>, pos |-> p]
    ELSE LET k == S[p + 2]
             copies == [j \in 1..(1 + k) |-> a]
         IN  IF left - 1 - k = 0
             THEN [ok |-> TRUE, samples |-> copies, pos |-> p + 2]
             ELSE IF p + 2 >= Len(S) THEN [ok |-> FALSE, samples |-> <<>>, pos |-> p]
             ELSE LET rest == RunLengthSamples(S, p + 3, S[p + 3], left - 1 - k)
                  IN  [rest EXCEPT !.samples = copies \o rest.samples]

\* the components of a mode-4 row, one behind the other in the stream from p
RECURSIVE RunLengthComponents(_, _, _, _)
RunLengthComponents(S, p, n, width) ==
    IF n = 0 THEN <<>>
    ELSE IF p >= Len(S) THEN <<[ok |-> FALSE, samples |-> <<>>, pos |-> p]>>
    ELSE LET c == RunLengthSamples(S, p + 1, S[p + 1], width)
         IN  <<c>> \o (IF c.ok THEN RunLengthComponents(S, c.pos, n - 1, width) ELSE <<>>)

\* the row loop is at a mode-4 row whose components all decode
RowComponents == RunLengthComponents(InflatedStream, zpos + 1, RowPixelSize, header.width)
RunLengthRow ==
    /\ pc = "unpack_2_rows" /\ y < header.height
    /\ IsDirect
    /\ zpos < Len(InflatedStream) /\ RowMode = 4
    /\ Len(RowComponents) = RowPixelSize
    /\ \A p \in 1..RowPixelSize : RowComponents[p].ok

\* the 4x1 24-bpp version-2 image of scenario S4 has been read
IsS4 ==
    /\ header.version = 2 /\ bpp = 24
    /\ header.width = 4 /\ header.height = 1
    /\ InflatedStream = <<4, 16, 16, 3, 16, 16, 3, 16, 16, 3>>

\* C18: a mode-4 row of a version-2/3 image whose run counts never exceed the
\* samples still lacking is decoded component by component, in order; each
\* component puts its `width` samples at the offsets p, p + pixel_size, ... of
\* the row, and no byte outside the row changes.  A byte equal to the running
\* value is followed by a count k and gives k more copies (none for k = 0,
\* and a fresh value is read), a differing byte becomes the running value and
\* is put out once.  Width 4 with [0x10,0x10,0x03] per component gives four
\* pixels (0x10,0x10,0x10).
C18_RunLengthRow ==
    /\ [][RunLengthRow =>
            /\ pc' = "unpack_2_rows" /\ y' = y + 1
            /\ zpos' = (IF RowPixelSize = 0 THEN zpos + 1
                        ELSE RowComponents[RowPixelSize].pos)
            /\ Len(color_data') = Len(color_data)
            /\ \A p \in 1..RowPixelSize :
                   /\ Len(RowComponents[p].samples) = header.width
                   /\ \A x \in 1..header.width :
                          RowAt(color_data', y, (x - 1) * RowPixelSize + (p - 1))
                              = RowComponents[p].samples[x]
            /\ \A i \in 1..Len(color_data) :
                   (i <= y * RowStride \/ i > (y + 1) * RowStride)
                       => color_data'[i] = color_data[i]]_vars
    /\ []((IsS4 /\ pc = "done") =>
            /\ result.kind = "Ok"
            /\ result.file.raw_image_buffer = [i \in 1..12 |-> 16])

\* a mode-4 row of three 24-bit pixels has been decoded whose components each
\* hold an empty run, a fresh value and a differing byte
C18_Witness ==
    /\ pc = "unpack_2_rows"
    /\ bpp = 24
    /\ header.width = 3
    /\ y = 1
    /\ InflatedStream[1] = 4
    /\ SubSeq(InflatedStream, 2, 6) = <<16, 16, 0, 32, 48>>
    /\ zpos = 16
    /\ color_data = <<16, 17, 18, 32, 33, 34, 48, 49, 50>>

\* flag bit 0x10, and the bytes of the file not yet read
LengthBit == (header.flag \div 16) % 2 = 1
Available == Len(input) - pos
HandsOver == pc' \in {"unpack_1", "unpack_2"}

\* the file ends with the payload of scenario S1, stored as the flag in its
\* header asks for
EndsWithS1 ==
    LET stored == PayloadBytes(header.flag, ZlibStored(<<0, 16, 32, 48, 1, 2, 3>>))
    IN  /\ Len(input) >= Len(stored)
        /\ SubSeq(input, Len(input) - Len(stored) + 1, Len(input)) = stored

\* C19: flag bit 0x10 alone selects the compressed blob.  With the bit set an
\* i32 length L is read and the blob is the next L bytes, nothing behind them
\* is read, and fewer than L bytes left is a short-read error; with the bit
\* clear the blob is every byte up to the end of the stream.  No other flag
\* bit changes what is read or what is decoded.
C19_PayloadSelection ==
    /\ [][/\ (pc = "payload" /\ LengthBit /\ Available < 4) =>
                (pc' = "done" /\ result' = UnexpectedEof)
          /\ (pc = "payload" /\ LengthBit /\ Available >= 4) =>
                LET L == I32At(input, pos)
                IN  /\ L > Available - 4 => (pc' = "done" /\ result' = UnexpectedEof)
                    /\ (L >= 0 /\ L <= Available - 4) =>
                           /\ HandsOver
                           /\ compressed_data' = SubSeq(input, pos + 5, pos + 4 + L)
                           /\ pos' = pos + 4 + L
          /\ (pc = "payload" /\ ~LengthBit) =>
                /\ HandsOver
                /\ compressed_data' = SubSeq(input, pos + 1, Len(input))
                /\ pos' = Len(input)
          /\ pc \notin {"signature", "header", "palette", "clip", "payload"} =>
                (pos' = pos /\ compressed_data' = compressed_data)]_vars
    /\ []((pc = "done" /\ header.version \in 2..3 /\ bpp = 24 /\ header.width = 2
              /\ header.height = 1 /\ EndsWithS1) =>
            /\ result.kind = "Ok"
            /\ result.file.raw_image_buffer = <<48, 32, 16, 51, 34, 17>>)

\* an image with every flag bit set was decoded from its length-prefixed
\* payload, and the byte behind the payload was not read
C19_Witness ==
    /\ pc = "done"
    /\ result.kind = "Ok"
    /\ header.flag = 65535
    /\ header.version = 3
    /\ EndsWithS1
    /\ pos = Len(input) - 1
    /\ Len(compressed_data) = I32At(input, pos - Len(compressed_data) - 4)
    /\ result.file.raw_image_buffer = <<48, 32, 16, 51, 34, 17>>

\* the longest copy that is followed byte by byte
MaxByteCopy == 64

\* the output byte that was last written to window cell i once d bytes are
\* out, 0 while the cell has not been written
LastWritten(out, d, i) ==
    LET last == d - 1 - ((d - 1 - i) % 65536)
    IN  IF last >= 0 THEN out[last + 1] ELSE 0

\* the locals of unpack_1 agree: the window cursor is the output cursor
\* mod 0x10000, and the window holds what was put out and nothing else
LoopInvariant(w, wp, out, d) ==
    /\ wp \in 0..65535
    /\ d \in 0..Len(out)
    /\ wp = d % 65536
    /\ Len(w) <= 65536
    /\ LET cells == IF Len(w) > d THEN Len(w) ELSE IF d < 65536 THEN d ELSE 65536
       IN  \A i \in 0..(cells - 1) : WindowAt(w, i) = LastWritten(out, d, i)

\* C21: at every boundary between iterations of the version-1 loop, and
\* after every byte a back-reference copies, 0 <= win_pos < 0x10000,
\* dst <= len(output) and win_pos = dst mod 0x10000; each byte put out is
\* written to the window in the same step and nothing else writes the window;
\* a copy stops at the byte that fills the output.
C21_WindowFollowsOutput ==
    /\ [](pc = "unpack_1_loop" => LoopInvariant(window, win_pos, color_data, dst))
    /\ [][(StepDecodes /\ ~Decoded.literal /\ Decoded.src # -1) =>
            LET room == Len(color_data) - dst
                n == IF Decoded.count < room THEN Decoded.count ELSE room
                begin == [offset |-> win_pos - Decoded.back, window |-> window,
                          win_pos |-> win_pos, output |-> color_data, dst |-> dst]
            IN  /\ dst' = dst + n
                /\ win_pos' = (win_pos + n) % 65536
                /\ Len(color_data') = Len(color_data)
                /\ \A i \in 1..Len(color_data) :
                       (i <= dst \/ i > dst + n) => color_data'[i] = color_data[i]
                /\ Decoded.count <= MaxByteCopy =>
                       \A after \in {copy_bytes(Decoded.count, begin)} :
                           /\ Len(after) = n
                           /\ \A s \in {after[j] : j \in 1..n} :
                                  LoopInvariant(s.window, s.win_pos, s.output, s.dst)
                           /\ \A j \in 1..n : after[j].dst = dst + j
                           /\ after[n].window = window'
                           /\ after[n].win_pos = win_pos'
                           /\ after[n].output = color_data'
                           /\ after[n].dst = dst']_vars

\* an output of more than 0x10000 bytes is full: the window cursor has gone
\* around, a copy followed byte by byte reached back across the end of the
\* window, and the last copy was cut by the end of the output
C21_Witness ==
    /\ pc = "unpack_1_loop"
    /\ dst = Len(color_data)
    /\ dst > 65536
    /\ win_pos = dst - 65536
    /\ \E k \in 1..Len(trace) :
           /\ ~trace[k].literal
           /\ trace[k].count <= MaxByteCopy
           /\ trace[k].src > trace[k].win_pos
           /\ trace[k].dst > 65536
    /\ ~trace[Len(trace)].literal
    /\ trace[Len(trace)].count > Len(color_data) - trace[Len(trace)].dst
====
